---- MODULE Spec2Model ----
(***************************************************************************)
(* Model of lib/debtProEngine.ts: runDebtProSimulation, the year-by-year   *)
(* projection engine of the DebtPro calculator.                            *)
(*                                                                         *)
(* Number representation.  The engine computes on IEEE-754 doubles.  The   *)
(* model is fixed point: money is an integer number of cents, a rate is an *)
(* integer number of thousandths (0.055 is 55, 1.0 is RateOne).  A product *)
(* money * rate is rounded to the cent by Mul.  The payoff tolerance       *)
(* 0.01 of the engine is therefore exactly one cent.                       *)
(***************************************************************************)
EXTENDS Integers, Sequences, FiniteSets

\* The rate 1.0 in thousandths.
RateOne == 10 * 10 * 10

\* Dollars to cents.
Dollars(d) == d * (10 * 10)

Max(a, b) == IF a >= b THEN a ELSE b

Min(a, b) == IF a <= b THEN a ELSE b

Abs(a) == IF a >= 0 THEN a ELSE -a

\* m * r / RateOne for m, r >= 0, rounded down; split so that no
\* intermediate product leaves the 32-bit integers of TLC.
MulNat(m, r) == (m \div RateOne) * r + ((m % RateOne) * r) \div RateOne

\* money * rate, rounded to the cent towards zero: like the IEEE product,
\* Mul(-m, r) = -Mul(m, r).
Mul(m, r) ==
  IF (m < 0) = (r < 0)
  THEN MulNat(Abs(m), Abs(r))
  ELSE -MulNat(Abs(m), Abs(r))

(***************************************************************************)
(* Bounds of the model.                                                    *)
(***************************************************************************)
\* Largest projectionYears a caller supplies (the default 30 is also run).
MaxYears == 3

\* Largest projectionYears supplied in the runs of repeated calls.
MaxCallYears == 2

\* The calls a caller makes in the runs of repeated calls.
MaxCalls == 3

(***************************************************************************)
(* Program constants.                                                      *)
(***************************************************************************)
DEFAULT_ASSUMPTIONS ==
  [projectionYears |-> 30, homeGrowthRate |-> 30,
   ipGrowthRate |-> 30, effectiveCgtRate |-> 100]

AssumptionKeys == DOMAIN DEFAULT_ASSUMPTIONS

\* const ipSellingCostRate = 0.03
ipSellingCostRate == 30

\* the early stop: homeLoanBalance <= 0.01
PayoffTolerance == 1

(***************************************************************************)
(* Inputs.                                                                 *)
(***************************************************************************)
ScenarioBase ==
  [propertyValueHome |-> Dollars(900000), homeLoanBalance |-> Dollars(600000),
   homeLoanRate |-> 55, minRepaymentMonthly |-> Dollars(3500),
   marginalTaxRate |-> 0, netIncomeAnnual |-> 0,
   livingExpensesAnnualExMortgage |-> 0, offsetBalance |-> 0,
   emergencyFundTarget |-> 0]

ZeroTips ==
  [tip1_extraSavingsPerMonth |-> 0, tip4_salaryGrowthRate |-> 0,
   tip5_purchaseYear |-> 0, tip5_purchasePrice |-> 0,
   tip5_purchaseCostsRate |-> 0, tip5_rentAnnual |-> 0,
   tip5_expensesAnnual |-> 0, tip5_ipLoanRate |-> 0,
   tip6_recyclePerYear |-> 0, tip6_investReturn |-> 0,
   tip6_dividendYield |-> 0]

ScenarioBTips ==
  [ZeroTips EXCEPT !.tip5_purchasePrice = Dollars(700000),
                   !.tip5_purchaseCostsRate = 50]

\* An omitted customAssumptions argument spreads to nothing, as {} does.
NoAssumptions == [k \in {} |-> 0]

ScenarioA == [base |-> ScenarioBase, tips |-> ZeroTips, custom |-> NoAssumptions]

ScenarioB == [base |-> ScenarioBase, tips |-> ScenarioBTips, custom |-> NoAssumptions]

ScenarioCTips == [ScenarioBTips EXCEPT !.tip6_recyclePerYear = Dollars(10000)]

ScenarioC == [base |-> ScenarioBase, tips |-> ScenarioCTips, custom |-> NoAssumptions]

BaseInputs ==
  { [propertyValueHome |-> Dollars(100000), homeLoanBalance |-> hl,
     homeLoanRate |-> hr, minRepaymentMonthly |-> mr,
     marginalTaxRate |-> 300, netIncomeAnnual |-> Dollars(50000),
     livingExpensesAnnualExMortgage |-> Dollars(30000),
     offsetBalance |-> ob, emergencyFundTarget |-> Dollars(5000)] :
     hl \in {0, Dollars(13000) + 1, Dollars(26000) + 1, Dollars(70000)},
     hr \in {0, 50},
     mr \in {0, Dollars(1000)},
     ob \in {0, Dollars(15000)} }

TipInputs ==
  { [tip1_extraSavingsPerMonth |-> 0, tip4_salaryGrowthRate |-> sg,
     tip5_purchaseYear |-> 0, tip5_purchasePrice |-> pp,
     tip5_purchaseCostsRate |-> 50, tip5_rentAnnual |-> Dollars(3000),
     tip5_expensesAnnual |-> Dollars(1000), tip5_ipLoanRate |-> 60,
     tip6_recyclePerYear |-> rc, tip6_investReturn |-> ry[1],
     tip6_dividendYield |-> ry[2]] :
     sg \in {0, 100},
     pp \in {0, Dollars(50000)},
     rc \in {0, Dollars(10000)},
     ry \in {<<0, 0>>, <<100, 0>>, <<100, 40>>} }

\* All the strategies at once, with extra savings paid on top of the minimum.
ExtraSavingsTips ==
  { [t EXCEPT !.tip1_extraSavingsPerMonth = Dollars(100)] :
    t \in { x \in TipInputs : /\ x.tip5_purchasePrice > 0
                             /\ x.tip6_recyclePerYear > 0
                             /\ x.tip6_dividendYield > 0 } }

\* The assumptions a caller supplies.
CustomAssumptions ==
  { [k \in {"projectionYears"} |-> n] : n \in 1..MaxYears }
  \cup { [projectionYears |-> MaxYears, ipGrowthRate |-> 500] }

\* The inputs run with no assumptions supplied, over the default 30 years.
DefaultRunInputs ==
  { [base |-> b, tips |-> t, custom |-> NoAssumptions] :
    b \in { x \in BaseInputs : x.offsetBalance = 0 },
    t \in { x \in TipInputs : x.tip6_dividendYield > 0 } }

Inputs ==
  {ScenarioA, ScenarioB, ScenarioC}
  \cup DefaultRunInputs
  \cup { [base |-> b, tips |-> t, custom |-> c] :
         b \in BaseInputs, t \in TipInputs, c \in CustomAssumptions }
  \cup { [base |-> b, tips |-> t,
          custom |-> [k \in {"projectionYears"} |-> MaxYears]] :
         b \in BaseInputs, t \in ExtraSavingsTips }

(***************************************************************************)
(* The stages of one simulated year, as the loop body computes them.       *)
(***************************************************************************)

\* Mutant of MergeAssumptions: the spread order is reversed, the defaults
\* are laid over the caller's options.
MergeDefaultsLast(defaults, custom) ==
  [k \in AssumptionKeys |->
     IF k \in DOMAIN defaults THEN defaults[k] ELSE custom[k]]

\* const assumptions = { ...DEFAULT_ASSUMPTIONS, ...customAssumptions }
MergeAssumptions(defaults, custom) ==
  [k \in AssumptionKeys |->
     IF k \in DOMAIN custom THEN custom[k] ELSE defaults[k]]

\* 3.1: if (yearIndex > 0) homeValue *= 1 + homeGrowthRate
GrowHomeValue(hv, y, a) ==
  IF y > 0 THEN Mul(hv, RateOne + a.homeGrowthRate) ELSE hv

\* 3.2: netIncome after this year's salary growth
GrowNetIncome(ni, y, t) ==
  IF y > 0 /\ t.tip4_salaryGrowthRate > 0
  THEN Mul(ni, RateOne + t.tip4_salaryGrowthRate)
  ELSE ni

\* Mutant of ExtraIncomeToMortgage: the whole rise goes to the mortgage.
ExtraIncomeToMortgageInFull(previousIncome, ni, y, t) ==
  IF y > 0 /\ t.tip4_salaryGrowthRate > 0
  THEN ni - previousIncome
  ELSE 0

\* 3.2: extraIncomeToMortgage = 0.5 * (netIncome - previousIncome)
ExtraIncomeToMortgage(previousIncome, ni, y, t) ==
  IF y > 0 /\ t.tip4_salaryGrowthRate > 0
  THEN Mul(ni - previousIncome, 500)
  ELSE 0

\* 3.3: (minRepaymentMonthly + tip1_extraSavingsPerMonth) * 13 + extra
AnnualHomeLoanRepayments(b, t, extra) ==
  (b.minRepaymentMonthly + t.tip1_extraSavingsPerMonth) * 13 + extra

\* Mutant of EffectiveHomeDebt: the whole offset balance relieves the loan.
EffectiveHomeDebtWholeOffset(bal, off, b) ==
  Max(0, bal - Max(0, off))

\* 3.4: loan balance less the offset funds above the emergency fund
EffectiveHomeDebt(bal, off, b) ==
  Max(0, bal - Max(0, off - b.emergencyFundTarget))

HomeLoanInterest(bal, off, b) ==
  Mul(EffectiveHomeDebt(bal, off, b), b.homeLoanRate)

\* Mutant of RepayHomeLoan: the payoff is not clamped at zero.
RepayHomeLoanUnclamped(bal, repayments, interest) ==
  LET principalPaid == repayments - interest
  IN  IF principalPaid < 0
      THEN bal + interest
      ELSE bal - principalPaid

\* Mutant of RepayHomeLoan: the operands of principalPaid are swapped.
RepayHomeLoanSwapped(bal, repayments, interest) ==
  LET principalPaid == interest - repayments
  IN  IF principalPaid < 0
      THEN bal + interest
      ELSE Max(0, bal - principalPaid)

\* 3.4: the balance after the year's repayment
RepayHomeLoan(bal, repayments, interest) ==
  LET principalPaid == repayments - interest
  IN  IF principalPaid < 0
      THEN bal + interest
      ELSE Max(0, bal - principalPaid)

\* Mutant of CarryOffset: a positive surplus is pushed into the offset.
SweepSurplusToOffset(off, surplus) == off + Max(0, surplus)

\* 3.4: "keep offsetBalance constant": the offset balance that the next year
\* starts from, whatever this year's surplus.
CarryOffset(off, surplus) == off

\* Mutant of UsableEquity: the 80% lending limit is left out.
UsableEquityOfFullValue(hv, bal) == Max(0, hv - bal)

\* 3.5: the purchase test
UsableEquity(hv, bal) == Max(0, Mul(hv, 800) - bal)

\* Mutant of RequiredEquity: a fifth of the price is required.
RequiredEquityOfFifth(t) == Mul(t.tip5_purchasePrice, 200)

RequiredEquity(t) == Mul(t.tip5_purchasePrice, 300)

BuysIP(has, t, hv, bal) ==
  /\ ~has
  /\ t.tip5_purchasePrice > 0
  /\ UsableEquity(hv, bal) >= RequiredEquity(t)

\* Mutant of BuysIPInYear: tip5_purchaseYear is honoured, no purchase before it.
BuysIPFromPurchaseYear(has, t, hv, bal, y) ==
  BuysIP(has, t, hv, bal) /\ y >= t.tip5_purchaseYear

\* 3.5: the purchase test as year y runs it: yearIndex and tip5_purchaseYear
\* are in scope and neither is read.
BuysIPInYear(has, t, hv, bal, y) == BuysIP(has, t, hv, bal)

\* Mutant of IpLoanAtPurchase: the purchase costs are not borrowed.
IpLoanWithoutCosts(t) == t.tip5_purchasePrice

\* 3.5: 100% debt funded: price + costs
IpLoanAtPurchase(t) ==
  t.tip5_purchasePrice + Mul(t.tip5_purchasePrice, t.tip5_purchaseCostsRate)

\* Mutant of GrowIpValue: the asset keeps the value it was bought at.
GrowIpValueNever(v, a) == v

\* 3.5: ipValue *= 1 + ipGrowthRate
GrowIpValue(v, a) == Mul(v, RateOne + a.ipGrowthRate)

\* Mutant of IpRent: rent is counted before the asset is held.
IpRentBeforePurchase(has, t) == t.tip5_rentAnnual

\* 3.5: ipRent = tips.tip5_rentAnnual once purchased, 0 before
IpRent(has, t) == IF has THEN t.tip5_rentAnnual ELSE 0

\* Mutant of InvestContributions: the whole remaining balance is recycled.
InvestContributionsWholeBalance(t, bal, has) ==
  IF t.tip6_recyclePerYear > 0 /\ bal > 0 /\ has
  THEN bal
  ELSE 0

\* Mutant of InvestContributions: recycling does not wait for the purchase.
InvestContributionsBeforePurchase(t, bal, has) ==
  IF t.tip6_recyclePerYear > 0 /\ bal > 0
  THEN Min(t.tip6_recyclePerYear, bal)
  ELSE 0

\* Mutant of InvestContributions: the target is not capped by the balance.
InvestContributionsUncapped(t, bal, has) ==
  IF t.tip6_recyclePerYear > 0 /\ bal > 0 /\ has
  THEN t.tip6_recyclePerYear
  ELSE 0

\* 3.6: the amount recycled this year
InvestContributions(t, bal, has) ==
  IF t.tip6_recyclePerYear > 0 /\ bal > 0 /\ has
  THEN Min(t.tip6_recyclePerYear, bal)
  ELSE 0

\* Mutant of HomeLoanAfterRecycling: the recycled amount pays down the loan.
HomeLoanPaidDownByRecycling(bal, contribution) == bal - contribution

\* 3.6: the recycling stage draws on the investment loan and does not assign
\* homeLoanBalance.
HomeLoanAfterRecycling(bal, contribution) == bal

\* 3.6: dividend of the year
Dividend(p, t) ==
  IF p > 0 THEN Mul(p, t.tip6_dividendYield) ELSE 0

\* Mutant of GrowPortfolio: capital growth is computed after the dividend.
GrowPortfolioOnDividend(p, t) ==
  IF p > 0
  THEN LET q == p + Mul(p, t.tip6_dividendYield)
       IN  q + Mul(q, t.tip6_investReturn - t.tip6_dividendYield)
  ELSE p

\* 3.6: investPortfolioValue += dividend + capitalGrowth
GrowPortfolio(p, t) ==
  IF p > 0
  THEN p + Mul(p, t.tip6_dividendYield)
         + Mul(p, t.tip6_investReturn - t.tip6_dividendYield)
  ELSE p

\* Mutant of DebtRecyclingInterest: charged whatever the investment return.
DebtRecyclingInterestAlways(loan, b, t) ==
  IF loan > 0
  THEN Mul(loan, b.homeLoanRate)
  ELSE 0

\* 3.6: interest on the recycled debt
DebtRecyclingInterest(loan, b, t) ==
  IF loan > 0 /\ t.tip6_investReturn > 0
  THEN Mul(loan, b.homeLoanRate)
  ELSE 0

\* 3.7: -net * marginalTaxRate, for a loss and for a gain alike
TaxEffect(net, b) ==
  IF net < 0 THEN Mul(-net, b.marginalTaxRate)
  ELSE IF net > 0 THEN Mul(-net, b.marginalTaxRate)
  ELSE 0

\* Mutant of TotalIncome: the net tax effect is added with its sign.
TotalIncomeWithSignedTax(ni, rent, income, tax) == ni + rent + income + tax

\* 3.8: a tax benefit counts as income
TotalIncome(ni, rent, income, tax) == ni + rent + income + Max(0, tax)

\* 3.8: extra tax counts as an expense
TotalExpenses(living, repayments, expenses, interest, tax) ==
  living + repayments + expenses + interest + Max(0, -tax)

\* 3.9
TotalAssets(hv, ipv, portfolio, off) == hv + ipv + portfolio + off

\* Mutant of TotalLiabilities: the recycled loan is left out.
TotalLiabilitiesWithoutRecycled(bal, ipLoan, invLoan) == bal + ipLoan

\* 3.9
TotalLiabilities(bal, ipLoan, invLoan) == bal + ipLoan + invLoan

\* Mutant of PortfolioAfterCGT: the portfolio counts at its full value.
PortfolioBeforeCGT(p, a) ==
  IF p > 0 THEN p ELSE 0

\* 3.10: portfolio proceeds after CGT
PortfolioAfterCGT(p, a) ==
  IF p > 0 THEN Mul(p, RateOne - a.effectiveCgtRate) ELSE 0

\* 3.10: sale price minus selling costs, then repay the IP loan
IpNetSaleProceeds(v, loan) ==
  IF v > 0 THEN Max(0, Mul(v, RateOne - ipSellingCostRate) - loan) ELSE 0

\* Mutant of CouldClearHomeLoan: a cleared loan counts as clearable.
CouldClearAnyBalance(bal, available) == available >= bal

CouldClearHomeLoan(bal, available) ==
  bal > 0 /\ available >= bal

\* Mutant of RecordDebtFree: a later year overwrites the recorded index.
RecordDebtFreeOverwriting(dfy, could, y) ==
  IF could THEN {y} ELSE dfy

\* if (couldClearHomeLoan && debtFreeYearIndex === undefined) ...
\* debtFreeYearIndex is {} while undefined and {yearIndex} once set.
RecordDebtFree(dfy, could, y) ==
  IF could /\ dfy = {} THEN {y} ELSE dfy

\* Mutant of PaidOff: the loop stops only on a balance of exactly zero.
PaidOffExactlyZero(bal) == bal <= 0

\* Mutant of PaidOff: the early stop is missing.
PaidOffNever(bal) == FALSE

\* the early stop after the push
PaidOff(bal) == bal <= PayoffTolerance

\* Mutant of LoopContinues: the bound is off by one.
LoopContinuesInclusive(y, a) == y <= a.projectionYears

\* the loop condition
LoopContinues(y, a) == y < a.projectionYears

(***************************************************************************)
(* State.                                                                  *)
(***************************************************************************)
VARIABLES
  defaultAssumptions,    \* the module-level DEFAULT_ASSUMPTIONS object
  base, tips, customAssumptions,          \* the arguments of the call
  assumptions,           \* the merged assumptions of the call
  years,                 \* YearState[]
  yearIndex,             \* the loop counter
  netIncome, livingExpenses, homeValue, homeLoanBalance, offsetBalance,
  ipValue, ipLoanBalance, hasPurchasedIP,
  investPortfolioValue, investmentLoanBalance,
  debtFreeYearIndex,     \* {} is undefined, {y} is y
  pc,                    \* "idle", "loop", "return", "done"
  callCount,             \* the calls the caller has made so far
  remembered             \* the result the caller has kept of an earlier call

args == <<base, tips, customAssumptions>>

running ==
  <<netIncome, livingExpenses, homeValue, homeLoanBalance, offsetBalance,
    ipValue, ipLoanBalance, hasPurchasedIP,
    investPortfolioValue, investmentLoanBalance>>

vars ==
  <<defaultAssumptions, args, assumptions, years, yearIndex, running,
    debtFreeYearIndex, pc, callCount, remembered>>

\* What the caller passed and what it got back.
CallRecord ==
  [call |-> callCount,
   base |-> base, tips |-> tips, custom |-> customAssumptions,
   years |-> years, debtFreeYearIndex |-> debtFreeYearIndex]

Init ==
  /\ defaultAssumptions = DEFAULT_ASSUMPTIONS
  /\ base = ScenarioBase
  /\ tips = ZeroTips
  /\ customAssumptions = NoAssumptions
  /\ assumptions = DEFAULT_ASSUMPTIONS
  /\ years = <<>>
  /\ yearIndex = 0
  /\ netIncome = 0
  /\ livingExpenses = 0
  /\ homeValue = 0
  /\ homeLoanBalance = 0
  /\ offsetBalance = 0
  /\ ipValue = 0
  /\ ipLoanBalance = 0
  /\ hasPurchasedIP = FALSE
  /\ investPortfolioValue = 0
  /\ investmentLoanBalance = 0
  /\ debtFreeYearIndex = {}
  /\ pc = "idle"
  /\ callCount = 0
  /\ remembered = {}

\* Mutant of DefaultsAfterMerge: Object.assign(DEFAULT_ASSUMPTIONS, custom).
DefaultsOverwritten(defaults, custom) == MergeAssumptions(defaults, custom)

\* The module-level defaults after a call has merged `custom` over them.
DefaultsAfterMerge(defaults, custom) == defaults

\* Where the loop stands after the for statement's test.
LoopOrReturn(y, a) == IF LoopContinues(y, a) THEN "loop" ELSE "return"

\* runDebtProSimulation(base, tips, customAssumptions): entry up to the
\* first test of the loop condition.
Enter(in) ==
  /\ callCount < MaxCalls
  /\ callCount' = callCount + 1
  /\ base' = in.base
  /\ tips' = in.tips
  /\ customAssumptions' = in.custom
  /\ assumptions' = MergeAssumptions(defaultAssumptions, in.custom)
  /\ defaultAssumptions' = DefaultsAfterMerge(defaultAssumptions, in.custom)
  /\ years' = <<>>
  /\ netIncome' = in.base.netIncomeAnnual
  /\ livingExpenses' = in.base.livingExpensesAnnualExMortgage
  /\ homeValue' = in.base.propertyValueHome
  /\ homeLoanBalance' = in.base.homeLoanBalance
  /\ offsetBalance' = in.base.offsetBalance
  /\ ipValue' = 0
  /\ ipLoanBalance' = 0
  /\ hasPurchasedIP' = FALSE
  /\ investPortfolioValue' = 0
  /\ investmentLoanBalance' = 0
  /\ debtFreeYearIndex' = {}
  /\ yearIndex' = 0
  /\ pc' = LoopOrReturn(0, assumptions')
  /\ UNCHANGED remembered

\* The first call after the module is loaded.
Call(in) == pc = "idle" /\ Enter(in)

\* A later call, made once the previous one has returned.
CallAgain(in) == pc = "done" /\ Enter(in)

\* One iteration of the loop: the twelve stages, the push of the snapshot,
\* the early stop, and the increment and test of the for statement.
Year ==
  /\ pc = "loop"
  /\ LET y == yearIndex
         \* 3.1, 3.2
         hv == GrowHomeValue(homeValue, y, assumptions)
         ni == GrowNetIncome(netIncome, y, tips)
         extraIncomeToMortgage == ExtraIncomeToMortgage(netIncome, ni, y, tips)
         \* 3.3, 3.4
         annualHomeLoanRepayments ==
           AnnualHomeLoanRepayments(base, tips, extraIncomeToMortgage)
         homeLoanInterest == HomeLoanInterest(homeLoanBalance, offsetBalance, base)
         repaid == RepayHomeLoan(homeLoanBalance, annualHomeLoanRepayments,
                                 homeLoanInterest)
         \* 3.5
         buys == BuysIPInYear(hasPurchasedIP, tips, hv, repaid, yearIndex)
         has == hasPurchasedIP \/ buys
         ipLoan == IF buys THEN IpLoanAtPurchase(tips) ELSE ipLoanBalance
         ipBought == IF buys THEN tips.tip5_purchasePrice ELSE ipValue
         ipv == IF has THEN GrowIpValue(ipBought, assumptions) ELSE ipBought
         ipRent == IpRent(has, tips)
         ipExpenses == IF has THEN tips.tip5_expensesAnnual ELSE 0
         ipInterest == IF has THEN Mul(ipLoan, tips.tip5_ipLoanRate) ELSE 0
         \* 3.6
         investContributions == InvestContributions(tips, repaid, has)
         bal == HomeLoanAfterRecycling(repaid, investContributions)
         invLoan == investmentLoanBalance + investContributions
         invested == investPortfolioValue + investContributions
         investIncome == Dividend(invested, tips)
         portfolio == GrowPortfolio(invested, tips)
         debtRecyclingInterest == DebtRecyclingInterest(invLoan, base, tips)
         \* 3.7
         taxEffectIP == TaxEffect(ipRent - ipExpenses - ipInterest, base)
         taxEffectInvest == TaxEffect(investIncome - debtRecyclingInterest, base)
         taxEffectNet == taxEffectIP + taxEffectInvest
         \* 3.8
         totalIncome == TotalIncome(ni, ipRent, investIncome, taxEffectNet)
         totalExpenses ==
           TotalExpenses(livingExpenses, annualHomeLoanRepayments, ipExpenses,
                         ipInterest, taxEffectNet)
         surplusCashflow == totalIncome - totalExpenses
         \* 3.9
         totalAssets == TotalAssets(hv, ipv, portfolio, offsetBalance)
         totalLiabilities == TotalLiabilities(bal, ipLoan, invLoan)
         \* 3.10
         totalAvailableIfSold ==
           IpNetSaleProceeds(ipv, ipLoan) + PortfolioAfterCGT(portfolio, assumptions)
         couldClearHomeLoan == CouldClearHomeLoan(bal, totalAvailableIfSold)
         \* 3.11
         snapshot ==
           [yearIndex |-> y,
            netIncome |-> ni,
            livingExpenses |-> livingExpenses,
            homeLoanInterest |-> homeLoanInterest,
            homeLoanRepayments |-> annualHomeLoanRepayments,
            ipRent |-> ipRent,
            ipExpenses |-> ipExpenses,
            ipInterest |-> ipInterest,
            investIncome |-> investIncome,
            taxEffectNet |-> taxEffectNet,
            totalIncome |-> totalIncome,
            totalExpenses |-> totalExpenses,
            surplusCashflow |-> surplusCashflow,
            homeValue |-> hv,
            ipValue |-> ipv,
            investPortfolioValue |-> portfolio,
            offsetBalance |-> offsetBalance,
            homeLoanBalance |-> bal,
            ipLoanBalance |-> ipLoan,
            investmentLoanBalance |-> invLoan,
            totalAssets |-> totalAssets,
            totalLiabilities |-> totalLiabilities,
            netWorth |-> totalAssets - totalLiabilities,
            couldClearHomeLoan |-> couldClearHomeLoan,
            totalAvailableIfSold |-> totalAvailableIfSold]
     IN  /\ homeValue' = hv
         /\ netIncome' = ni
         /\ homeLoanBalance' = bal
         /\ hasPurchasedIP' = has
         /\ ipValue' = ipv
         /\ offsetBalance' = CarryOffset(offsetBalance, surplusCashflow)
         /\ ipLoanBalance' = ipLoan
         /\ investmentLoanBalance' = invLoan
         /\ investPortfolioValue' = portfolio
         /\ debtFreeYearIndex' = RecordDebtFree(debtFreeYearIndex, couldClearHomeLoan, y)
         /\ years' = Append(years, snapshot)
         /\ IF PaidOff(bal)
            THEN /\ pc' = "return"
                 /\ yearIndex' = y
            ELSE /\ pc' = LoopOrReturn(y + 1, assumptions)
                 /\ yearIndex' = y + 1
  /\ UNCHANGED <<defaultAssumptions, args, assumptions, livingExpenses,
                 callCount, remembered>>

\* return { years, debtFreeYearIndex }
Return ==
  /\ pc = "return"
  /\ pc' = "done"
  /\ UNCHANGED <<defaultAssumptions, args, assumptions, years, yearIndex,
                 running, debtFreeYearIndex, callCount, remembered>>

\* The caller keeps the result of the call that has just returned.
Remember ==
  /\ pc = "done"
  /\ remembered' = {CallRecord}
  /\ UNCHANGED <<defaultAssumptions, args, assumptions, years, yearIndex,
                 running, debtFreeYearIndex, pc, callCount>>

Next ==
  \/ \E in \in Inputs : Call(in)
  \/ Year
  \/ Return

Spec == Init /\ [][Next]_vars

(***************************************************************************)
(* Repeated calls: the caller calls again and again, with inputs of the    *)
(* small set FewInputs, and keeps some of the results.                     *)
(***************************************************************************)
FewBase ==
  [propertyValueHome |-> Dollars(100000), homeLoanBalance |-> Dollars(20000),
   homeLoanRate |-> 50, minRepaymentMonthly |-> Dollars(1000),
   marginalTaxRate |-> 300, netIncomeAnnual |-> Dollars(50000),
   livingExpensesAnnualExMortgage |-> Dollars(30000),
   offsetBalance |-> 0, emergencyFundTarget |-> Dollars(5000)]

FewTips ==
  [tip1_extraSavingsPerMonth |-> 0, tip4_salaryGrowthRate |-> 100,
   tip5_purchaseYear |-> 0, tip5_purchasePrice |-> Dollars(50000),
   tip5_purchaseCostsRate |-> 50, tip5_rentAnnual |-> Dollars(3000),
   tip5_expensesAnnual |-> Dollars(1000), tip5_ipLoanRate |-> 60,
   tip6_recyclePerYear |-> Dollars(10000), tip6_investReturn |-> 100,
   tip6_dividendYield |-> 40]

\* A purchase year the caller may ask for, later than the year the equity
\* test first passes.
LaterPurchaseYear == 5

\* Options that leave projectionYears and homeGrowthRate to the defaults.
OtherRates == [ipGrowthRate |-> 0, effectiveCgtRate |-> 200]

FewInputs ==
  { [base |-> b, tips |-> t, custom |-> c] :
    b \in {FewBase, [FewBase EXCEPT !.homeLoanBalance = Dollars(70000)]},
    t \in {FewTips, [FewTips EXCEPT !.tip5_purchaseYear = LaterPurchaseYear],
           ZeroTips},
    c \in {NoAssumptions, OtherRates}
          \cup { [k \in {"projectionYears"} |-> n] : n \in 1..MaxCallYears }
          \cup { [projectionYears |-> MaxCallYears, homeGrowthRate |-> 0] } }

NextCalls ==
  \/ \E in \in FewInputs : Call(in)
  \/ \E in \in FewInputs : CallAgain(in)
  \/ Year
  \/ Return
  \/ Remember

SpecCalls == Init /\ [][NextCalls]_vars

(***************************************************************************)
(* A single call that runs on once started: the engine is synchronous and  *)
(* single-threaded, so a started call takes its next step.                 *)
(***************************************************************************)
InterestOnly ==
  [base |-> [FewBase EXCEPT !.homeLoanBalance = Dollars(70000),
                            !.minRepaymentMonthly = 0],
   tips |-> ZeroTips, custom |-> NoAssumptions]

LiveInputs == FewInputs \cup {ScenarioA, ScenarioB, InterestOnly}

NextLive ==
  \/ \E i \in LiveInputs : Call(i)
  \/ Year
  \/ Return

SpecLive == Init /\ [][NextLive]_vars /\ WF_vars(Year) /\ WF_vars(Return)

(***************************************************************************)
(* Helpers of the claims.                                                  *)
(***************************************************************************)
\* The call in progress, or the last call made.
in == [base |-> base, tips |-> tips, custom |-> customAssumptions]

Called == pc # "idle"

Last == years[Len(years)]

\* The home loan balance carried into the year of snapshot i.
BalanceBefore(i) ==
  IF i = 1 THEN base.homeLoanBalance ELSE years[i - 1].homeLoanBalance

(***************************************************************************)
(* C1.  Early exit: once a snapshot with homeLoanBalance <= 0.01 has been  *)
(* appended no further snapshot is appended: the loop is left, that        *)
(* snapshot is the last of years, and every snapshot but the last has      *)
(* homeLoanBalance > 0.01.  The year that reaches the tolerance is         *)
(* included: an initial balance of 0 returns exactly one snapshot, of      *)
(* yearIndex 0.                                                            *)
(***************************************************************************)
C1_EarlyExit ==
  Called =>
    /\ \A i \in 1..Len(years) :
         years[i].homeLoanBalance <= 1 => i = Len(years) /\ pc # "loop"
    /\ \A i \in 1..(Len(years) - 1) : years[i].homeLoanBalance > 1
    /\ (pc = "done" /\ base.homeLoanBalance = 0) =>
         Len(years) = 1 /\ years[1].yearIndex = 0

\* A run of two years that stops, well before projectionYears, on a balance
\* of one cent: positive, yet within the tolerance.
C1_Witness ==
  /\ pc = "done"
  /\ Len(years) = 2
  /\ assumptions.projectionYears > 2
  /\ years[1].homeLoanBalance > 1
  /\ years[2].homeLoanBalance = 1

(***************************************************************************)
(* C2.  First occurrence: debtFreeYearIndex is the smallest yearIndex      *)
(* among the snapshots whose couldClearHomeLoan is true, and is undefined  *)
(* exactly when no snapshot has the flag; a later flagged year does not    *)
(* overwrite it.                                                           *)
(***************************************************************************)
ClearYears == { years[i].yearIndex : i \in { j \in 1..Len(years) : years[j].couldClearHomeLoan } }

C2_FirstOccurrence ==
  Called =>
    /\ (debtFreeYearIndex = {}) <=> (ClearYears = {})
    /\ \A d \in debtFreeYearIndex :
         d \in ClearYears /\ \A y \in ClearYears : d <= y

\* A returned run in which the flag is first true after year 0, and true
\* again in a later year.
C2_Witness ==
  /\ pc = "done"
  /\ \E d \in debtFreeYearIndex : d > 0 /\ \E y \in ClearYears : y > d
  /\ ~Last.couldClearHomeLoan

(***************************************************************************)
(* C3.  Termination and length: with projectionYears = N >= 1 the call     *)
(* returns, with between 1 and N snapshots, the k-th (0-based) of          *)
(* yearIndex k; fewer than N only if the last has homeLoanBalance <= 0.01; *)
(* at most 30 when no assumptions are supplied.  Checked under SpecLive.   *)
(***************************************************************************)
C3_Length ==
  (Called /\ assumptions.projectionYears >= 1) =>
    /\ Len(years) <= assumptions.projectionYears
    /\ \A k \in 1..Len(years) : years[k].yearIndex = k - 1
    /\ pc \in {"return", "done"} =>
         /\ Len(years) >= 1
         /\ Len(years) < assumptions.projectionYears =>
              Last.homeLoanBalance <= 1
         /\ customAssumptions = NoAssumptions => Len(years) <= 30

C3_TerminationAndLength ==
  /\ []C3_Length
  /\ (pc = "loop") ~> (pc = "done")

\* A run with no assumptions supplied that returns all 30 snapshots, the
\* loan still open.
C3_Witness ==
  /\ pc = "done"
  /\ customAssumptions = NoAssumptions
  /\ Len(years) = 30
  /\ Last.yearIndex = 29
  /\ Last.homeLoanBalance > 1

(***************************************************************************)
(* C4.  The home loan balance is never negative: for non-negative inputs   *)
(* homeLoanBalance >= 0 in every snapshot, in the payoff year (clamped to  *)
(* exactly 0) and in years whose interest is capitalised alike.            *)
(***************************************************************************)
C4_BalanceNonNegative ==
  /\ homeLoanBalance >= 0
  /\ \A i \in 1..Len(years) :
       /\ years[i].homeLoanBalance >= 0
       /\ (years[i].homeLoanRepayments - years[i].homeLoanInterest
             > BalanceBefore(i)) => years[i].homeLoanBalance = 0

\* A payoff year, not the first of its run, whose repayment exceeds the
\* balance plus a positive interest.
C4_Witness ==
  /\ Called
  /\ \E i \in 2..Len(years) :
       /\ years[i].homeLoanInterest > 0
       /\ years[i].homeLoanRepayments - years[i].homeLoanInterest
            > BalanceBefore(i)
       /\ years[i].homeLoanBalance = 0

(***************************************************************************)
(* C5.  Monotonic payoff: where minRepaymentMonthly * 13 > 0 and the       *)
(* year's interest (effectiveDebt * homeLoanRate) is below the year's      *)
(* repayment, the balance does not rise: snapshot 0's is at most the input *)
(* balance, snapshot i+1's at most snapshot i's, and none is negative.     *)
(***************************************************************************)
C5_MonotonicPayoff ==
  \A i \in 1..Len(years) :
    ( /\ base.minRepaymentMonthly * 13 > 0
      /\ base.homeLoanRate >= 0
      /\ years[i].homeLoanInterest < years[i].homeLoanRepayments ) =>
        /\ years[i].homeLoanBalance <= BalanceBefore(i)
        /\ years[i].homeLoanBalance >= 0

\* Three years of repayments above a positive interest, the balance falling
\* each year and reaching 0.
C5_Witness ==
  /\ pc = "done"
  /\ Len(years) >= 3
  /\ base.minRepaymentMonthly * 13 > 0
  /\ \A i \in 1..Len(years) :
       /\ years[i].homeLoanInterest < years[i].homeLoanRepayments
       /\ years[i].homeLoanBalance < BalanceBefore(i)
  /\ years[1].homeLoanInterest > 0
  /\ Last.homeLoanBalance = 0

(***************************************************************************)
(* C6.  Acquisition is monotone and single-fire.  As claimed: ipValue is 0 *)
(* in every year before the first year in which                            *)
(* max(0, 0.8 * homeValue - homeLoanBalance) >= 0.3 * tip5_purchasePrice   *)
(* holds, and positive in that year and every later one.                   *)
(***************************************************************************)
EquityCondition(i) ==
  Max(0, Mul(years[i].homeValue, 800) - years[i].homeLoanBalance)
    >= Mul(tips.tip5_purchasePrice, 300)

\* The equity condition has held in the year of snapshot i or before.
EquityReached(i) == \E j \in 1..i : EquityCondition(j)

C6_AsClaimed ==
  \A i \in 1..Len(years) : (years[i].ipValue > 0) <=> EquityReached(i)

(***************************************************************************)
(* C6, amended.  In a run with tip5_purchasePrice > 0: ipValue is 0 before *)
(* the first year in which the equity condition holds and positive from    *)
(* that year on; the asset is acquired in that year and no other, its loan *)
(* being 0 before and price + costs ever after; hasPurchasedIP is never    *)
(* reset.  With tip5_purchasePrice <= 0 nothing is ever acquired.          *)
(***************************************************************************)
C6_AcquisitionSingleFire ==
  /\ tips.tip5_purchasePrice > 0 =>
       /\ \A i \in 1..Len(years) :
            /\ (years[i].ipValue > 0) <=> EquityReached(i)
            /\ ~EquityReached(i) =>
                 years[i].ipValue = 0 /\ years[i].ipLoanBalance = 0
            /\ EquityReached(i) =>
                 years[i].ipLoanBalance =
                   tips.tip5_purchasePrice
                     + Mul(tips.tip5_purchasePrice, tips.tip5_purchaseCostsRate)
       /\ hasPurchasedIP <=> EquityReached(Len(years))
  /\ tips.tip5_purchasePrice <= 0 =>
       /\ ~hasPurchasedIP
       /\ \A i \in 1..Len(years) : years[i].ipValue = 0

\* A returned run that acquires the asset in its second year or later and
\* goes on for at least one more year.
C6_Witness ==
  /\ pc = "done"
  /\ tips.tip5_purchasePrice > 0
  /\ \E i \in 2..(Len(years) - 1) :
       /\ ~EquityReached(i - 1)
       /\ EquityCondition(i)
       /\ years[i - 1].ipValue = 0
       /\ years[i].ipValue > 0
       /\ years[i + 1].ipValue > 0

(***************************************************************************)
(* C7.  Recycling bound: the amount added to investmentLoanBalance in a    *)
(* year exceeds neither that year's home loan balance before the           *)
(* contribution nor tip6_recyclePerYear.                                   *)
(***************************************************************************)
\* The amount added to the recycled loan in the year of snapshot i.
Contribution(i) ==
  years[i].investmentLoanBalance
    - (IF i = 1 THEN 0 ELSE years[i - 1].investmentLoanBalance)

C7_RecyclingBound ==
  \A i \in 1..Len(years) :
    /\ Contribution(i) <= years[i].homeLoanBalance
    /\ Contribution(i) <= tips.tip6_recyclePerYear

\* A year in which the remaining balance, below the target, is what is
\* recycled.
C7_Witness ==
  \E i \in 1..Len(years) :
    /\ Contribution(i) > 0
    /\ Contribution(i) = years[i].homeLoanBalance
    /\ Contribution(i) < tips.tip6_recyclePerYear

(***************************************************************************)
(* C8.  Pure and stateless: a call with the inputs of an earlier call,     *)
(* whatever calls were made in between, returns the same snapshots and the *)
(* same debtFreeYearIndex; no call changes the default assumptions, and a  *)
(* running call changes neither its arguments nor what the caller holds.   *)
(* Checked under SpecCalls.                                                *)
(***************************************************************************)
SameInputs(r) ==
  r.base = base /\ r.tips = tips /\ r.custom = customAssumptions

C8_SameResult ==
  /\ defaultAssumptions = DEFAULT_ASSUMPTIONS
  /\ pc = "done" =>
       \A r \in remembered :
         (r.call < callCount /\ SameInputs(r)) =>
           r.years = years /\ r.debtFreeYearIndex = debtFreeYearIndex

\* What a step of a running call leaves alone.
RunningCallFrame ==
  pc \in {"loop", "return"} =>
    (args' = args /\ remembered' = remembered
       /\ defaultAssumptions' = defaultAssumptions)

C8_Pure == []C8_SameResult /\ [][RunningCallFrame]_vars

\* The third call repeats the inputs of the first, after a call between
\* them, and returns the same snapshots of several years.
C8_Witness ==
  /\ pc = "done"
  /\ \E r \in remembered :
       /\ r.call + 1 < callCount
       /\ SameInputs(r)
       /\ r.years = years
       /\ Len(years) >= 2
       /\ r.custom = NoAssumptions

(***************************************************************************)
(* C9.  Scenario A (900000 home, 600000 loan at 5.5%, 3500 a month, no     *)
(* strategy, 30 years): homeLoanBalance falls strictly from each snapshot  *)
(* to the next, reaches 0 before year 30 so that fewer than 30 snapshots   *)
(* are returned, and ipValue and investPortfolioValue are 0 throughout.    *)
(***************************************************************************)
C9_ScenarioA ==
  (Called /\ in = ScenarioA) =>
    /\ assumptions.projectionYears = 30
    /\ \A i \in 1..Len(years) :
         /\ years[i].homeLoanBalance < BalanceBefore(i)
         /\ years[i].ipValue = 0
         /\ years[i].investPortfolioValue = 0
    /\ pc = "done" =>
         Len(years) < 30 /\ Last.homeLoanBalance = 0

\* Scenario A has returned, after more than 20 years.
C9_Witness ==
  /\ pc = "done"
  /\ in = ScenarioA
  /\ Len(years) > 20
  /\ Last.homeLoanBalance = 0

(***************************************************************************)
(* C10.  Scenario B (scenario A with a 700000 purchase at 5% costs): the   *)
(* first snapshot with 0.8 * homeValue - homeLoanBalance >= 210000 shows   *)
(* ipValue = 700000 * 1.03 = 721000 and ipLoanBalance = 735000; every      *)
(* earlier snapshot shows 0 for both.                                      *)
(***************************************************************************)
ScenarioBEquity(i) ==
  Mul(years[i].homeValue, 800) - years[i].homeLoanBalance >= Dollars(210000)

C10_ScenarioB ==
  (Called /\ in = ScenarioB) =>
    \A i \in 1..Len(years) :
      IF \E j \in 1..i : ScenarioBEquity(j)
      THEN (\A j \in 1..(i - 1) : ~ScenarioBEquity(j)) =>
             /\ years[i].ipValue = Dollars(721000)
             /\ years[i].ipLoanBalance = Dollars(735000)
      ELSE years[i].ipValue = 0 /\ years[i].ipLoanBalance = 0

\* Scenario B has returned; its acquisition year is neither the first nor
\* the last.
C10_Witness ==
  /\ pc = "done"
  /\ in = ScenarioB
  /\ \E i \in 2..(Len(years) - 1) :
       /\ ScenarioBEquity(i)
       /\ ~ScenarioBEquity(i - 1)
       /\ years[i].ipValue = Dollars(721000)
       /\ years[i - 1].ipValue = 0

(***************************************************************************)
(* C11.  Scenario C (scenario B with tip6_recyclePerYear = 10000).  As     *)
(* claimed: investmentLoanBalance and investPortfolioValue are 0 in every  *)
(* snapshot up to and including the acquisition snapshot, and positive in  *)
(* every snapshot after it.                                                *)
(***************************************************************************)
\* The asset has been acquired by the year of snapshot i.
AcquiredBy(i) == years[i].ipLoanBalance > 0

\* Snapshot i is the acquisition snapshot.
AcquiredIn(i) == AcquiredBy(i) /\ (i > 1 => ~AcquiredBy(i - 1))

Recycled(i) ==
  years[i].investmentLoanBalance > 0 /\ years[i].investPortfolioValue > 0

NothingRecycled(i) ==
  years[i].investmentLoanBalance = 0 /\ years[i].investPortfolioValue = 0

C11_AsClaimed ==
  (Called /\ in = ScenarioC) =>
    \A i \in 1..Len(years) :
      IF AcquiredBy(i) /\ ~AcquiredIn(i)
      THEN Recycled(i)
      ELSE NothingRecycled(i)

(***************************************************************************)
(* C11, amended.  In scenario C investmentLoanBalance and                  *)
(* investPortfolioValue are 0 in every snapshot before the acquisition     *)
(* snapshot and positive in the acquisition snapshot itself and in every   *)
(* later one: recycling starts in the year of the purchase.                *)
(***************************************************************************)
C11_ScenarioC ==
  (Called /\ in = ScenarioC) =>
    \A i \in 1..Len(years) :
      IF AcquiredBy(i) THEN Recycled(i) ELSE NothingRecycled(i)

\* Scenario C has returned; it acquired the asset after its first year and
\* recycled 10000 in that very year.
C11_Witness ==
  /\ pc = "done"
  /\ in = ScenarioC
  /\ \E i \in 2..(Len(years) - 1) :
       /\ AcquiredIn(i)
       /\ NothingRecycled(i - 1)
       /\ years[i].investmentLoanBalance = Dollars(10000)
       /\ years[i].investPortfolioValue = Dollars(10000)
       /\ Recycled(i + 1)

(***************************************************************************)
(* C12.  The effective assumptions of a run are the defaults               *)
(* {projectionYears 30, homeGrowthRate 0.03, ipGrowthRate 0.03,            *)
(* effectiveCgtRate 0.10} with each option independently replaced by the   *)
(* caller's value when one is supplied: an omitted option, or an omitted   *)
(* argument, leaves the default and does not touch the other options.  The *)
(* merge is applied once, at the start of the run: no later step of the    *)
(* run changes the effective assumptions.                                  *)
(***************************************************************************)
ClaimedDefaults ==
  [projectionYears |-> 30, homeGrowthRate |-> 30, ipGrowthRate |-> 30,
   effectiveCgtRate |-> 100]

C12_Effective ==
  Called =>
    /\ DOMAIN assumptions = DOMAIN ClaimedDefaults
    /\ \A k \in DOMAIN ClaimedDefaults :
         assumptions[k] = IF k \in DOMAIN customAssumptions
                          THEN customAssumptions[k]
                          ELSE ClaimedDefaults[k]

C12_MergedOnce == pc \in {"loop", "return"} => assumptions' = assumptions

C12_AssumptionMerge == []C12_Effective /\ [][C12_MergedOnce]_vars

\* A later call that supplies two of the rates and omits the other two options
\* has run past MaxCallYears years, with the asset's value not growing.
C12_Witness ==
  /\ pc = "done"
  /\ callCount > 1
  /\ customAssumptions = OtherRates
  /\ assumptions.projectionYears = 30
  /\ assumptions.homeGrowthRate = 30
  /\ assumptions.ipGrowthRate = 0
  /\ assumptions.effectiveCgtRate = 200
  /\ Len(years) > MaxCallYears
  /\ years[1].ipValue > 0
  /\ years[2].ipValue = years[1].ipValue
  /\ years[2].homeValue > years[1].homeValue

(***************************************************************************)
(* C13.  In every snapshot totalAvailableIfSold equals                     *)
(* max(0, ipValue x 0.97 - ipLoanBalance) plus, when investPortfolioValue  *)
(* is positive, investPortfolioValue x (1 - effectiveCgtRate); and         *)
(* couldClearHomeLoan is true exactly when homeLoanBalance > 0 and         *)
(* totalAvailableIfSold >= homeLoanBalance, all values being the           *)
(* snapshot's own end-of-year values.                                      *)
(***************************************************************************)
ClaimedAvailableIfSold(y) ==
  Max(0, Mul(y.ipValue, 970) - y.ipLoanBalance)
    + (IF y.investPortfolioValue > 0
       THEN Mul(y.investPortfolioValue, RateOne - assumptions.effectiveCgtRate)
       ELSE 0)

C13_LiquidationTest ==
  \A i \in 1..Len(years) :
    /\ years[i].totalAvailableIfSold = ClaimedAvailableIfSold(years[i])
    /\ years[i].couldClearHomeLoan <=>
         (years[i].homeLoanBalance > 0
            /\ years[i].totalAvailableIfSold >= years[i].homeLoanBalance)

\* One run shows a year whose sale proceeds, from both the asset and the
\* portfolio, fall short of the loan, and a later year where they cover it.
C13_Witness ==
  \E i, j \in 1..Len(years) :
    /\ i < j
    /\ years[i].ipValue > 0
    /\ Mul(years[i].ipValue, 970) > years[i].ipLoanBalance
    /\ years[i].investPortfolioValue > 0
    /\ years[i].totalAvailableIfSold > 0
    /\ ~years[i].couldClearHomeLoan
    /\ years[j].couldClearHomeLoan
    /\ years[j].investPortfolioValue > 0

(***************************************************************************)
(* C14.  tip5_purchaseYear is not honoured: two calls whose inputs differ  *)
(* at most in tip5_purchaseYear return the same snapshots and the same     *)
(* debtFreeYearIndex.                                                      *)
(***************************************************************************)
SameButPurchaseYear(r) ==
  /\ r.base = base
  /\ r.custom = customAssumptions
  /\ [r.tips EXCEPT !.tip5_purchaseYear = tips.tip5_purchaseYear] = tips

C14_PurchaseYearIgnored ==
  pc = "done" =>
    \A r \in remembered :
      (r.call < callCount /\ SameButPurchaseYear(r)) =>
        r.years = years /\ r.debtFreeYearIndex = debtFreeYearIndex

\* Two calls that differ in tip5_purchaseYear alone both bought the asset in
\* their first year, before the later of the two purchase years.
C14_Witness ==
  /\ pc = "done"
  /\ tips.tip5_purchaseYear = LaterPurchaseYear
  /\ Len(years) > 1
  /\ years[1].ipValue > 0
  /\ \E r \in remembered :
       /\ r.call < callCount
       /\ SameButPurchaseYear(r)
       /\ r.tips.tip5_purchaseYear = 0
       /\ r.years = years

(***************************************************************************)
(* C15.  CPI indexation, as the page's FAQ documents it: livingExpenses of *)
(* a snapshot is 1.03 x livingExpenses of the snapshot before it, and once *)
(* the asset is held ipRent and ipExpenses grow by 3% from one snapshot to *)
(* the next.                                                               *)
(***************************************************************************)
CpiRate == 30

Indexed(before, after) == after = Mul(before, RateOne + CpiRate)

C15_CpiIndexation ==
  \A i \in 2..Len(years) :
    /\ Indexed(years[i - 1].livingExpenses, years[i].livingExpenses)
    /\ AcquiredBy(i - 1) =>
         /\ Indexed(years[i - 1].ipRent, years[i].ipRent)
         /\ Indexed(years[i - 1].ipExpenses, years[i].ipExpenses)

(***************************************************************************)
(* C16.  The recycling schedule, as the page's FAQ and input form document *)
(* it: the first year of recycling draws tip6_recyclePerYear, a one-time   *)
(* kick-off; every later year draws that year's repayments above the       *)
(* minimum, homeLoanRepayments - 13 x minRepaymentMonthly, and not         *)
(* tip6_recyclePerYear again.                                              *)
(***************************************************************************)
RecycledBefore(i) == i > 1 /\ years[i - 1].investmentLoanBalance > 0

AboveMinimum(i) ==
  years[i].homeLoanRepayments - 13 * base.minRepaymentMonthly

C16_RecyclingSchedule ==
  \A i \in 1..Len(years) :
    IF RecycledBefore(i)
    THEN Contribution(i) = AboveMinimum(i)
    ELSE Contribution(i) \in {0, tips.tip6_recyclePerYear}

(***************************************************************************)
(* C17.  Salary growth, as the page's FAQ documents it: net income grows   *)
(* by the rate g each year, the minimum repayment stays fixed, and the     *)
(* extra repayment of year i is the compounded growth on the annual        *)
(* minimum, annual minimum x ((1 + g)^i - 1), the annual minimum being     *)
(* read either as 13 or as 12 monthly minimums.                            *)
(***************************************************************************)
RECURSIVE Compounded(_, _, _)
Compounded(m, g, n) ==
  IF n = 0 THEN m ELSE Mul(Compounded(m, g, n - 1), RateOne + g)

DocumentedExtra(months, i) ==
  LET minimum == months * base.minRepaymentMonthly
  IN  Compounded(minimum, tips.tip4_salaryGrowthRate, years[i].yearIndex)
        - minimum

ExtraRepayment(i) ==
  years[i].homeLoanRepayments
    - 13 * (base.minRepaymentMonthly + tips.tip1_extraSavingsPerMonth)

C17_SalaryGrowthExtra ==
  \A i \in 1..Len(years) :
    /\ i > 1 => years[i].netIncome
                  = Mul(years[i - 1].netIncome,
                        RateOne + tips.tip4_salaryGrowthRate)
    /\ ExtraRepayment(i) \in {DocumentedExtra(13, i), DocumentedExtra(12, i)}

(***************************************************************************)
(* C18.  The mortgage stage.  With L the balance carried into the year and *)
(* R the year's repayment, homeLoanInterest is                             *)
(* max(0, L - max(0, offsetBalance - emergencyFundTarget)) x homeLoanRate; *)
(* if R - homeLoanInterest < 0 the new balance is L + homeLoanInterest,    *)
(* otherwise it is max(0, L - (R - homeLoanInterest)).                     *)
(***************************************************************************)
ClaimedInterest(i) ==
  Mul(Max(0, BalanceBefore(i)
               - Max(0, years[i].offsetBalance - base.emergencyFundTarget)),
      base.homeLoanRate)

C18_MortgageStage ==
  \A i \in 1..Len(years) :
    LET L == BalanceBefore(i)
        R == years[i].homeLoanRepayments
        interest == years[i].homeLoanInterest
    IN  /\ interest = ClaimedInterest(i)
        /\ years[i].homeLoanBalance =
             IF R - interest < 0
             THEN L + interest
             ELSE Max(0, L - (R - interest))

\* With offset funds above the emergency fund charging interest on less than
\* the balance, one year capitalises its unpaid interest and a later year
\* pays principal without clearing the loan.
C18_Witness ==
  /\ base.offsetBalance > base.emergencyFundTarget
  /\ \E i, j \in 1..Len(years) :
       /\ i < j
       /\ years[i].homeLoanInterest > 0
       /\ years[i].homeLoanInterest < Mul(BalanceBefore(i), base.homeLoanRate)
       /\ years[i].homeLoanRepayments < years[i].homeLoanInterest
       /\ years[i].homeLoanBalance = BalanceBefore(i) + years[i].homeLoanInterest
       /\ years[j].homeLoanRepayments > years[j].homeLoanInterest
       /\ years[j].homeLoanBalance < BalanceBefore(j)
       /\ years[j].homeLoanBalance > 0

(***************************************************************************)
(* C19.  Growth and income.  Snapshot 0 has homeValue = propertyValueHome, *)
(* netIncome = netIncomeAnnual and homeLoanRepayments =                    *)
(* (minRepaymentMonthly + tip1_extraSavingsPerMonth) x 13.  For i > 0,     *)
(* homeValue_i = homeValue_(i-1) x (1 + homeGrowthRate); with              *)
(* tip4_salaryGrowthRate > 0, netIncome_i = netIncome_(i-1) x (1 + rate)   *)
(* and homeLoanRepayments_i is the 13 monthly amounts plus                 *)
(* 0.5 x (netIncome_i - netIncome_(i-1)); with a rate <= 0 netIncome stays *)
(* constant and homeLoanRepayments is the 13 monthly amounts alone.        *)
(***************************************************************************)
ThirteenMonths ==
  (base.minRepaymentMonthly + tips.tip1_extraSavingsPerMonth) * 13

C21_AcquisitionTrigger ==
  /\ \A i \in 1..Len(years) :
       AcquiredIn(i) <=>
         /\ i > 1 => ~AcquiredBy(i - 1)
         /\ tips.tip5_purchasePrice > 0
         /\ EquityCondition(i)
  /\ tips.tip5_purchasePrice <= 0 =>
       /\ ~hasPurchasedIP
       /\ \A i \in 1..Len(years) : ~AcquiredBy(i)

\* The asset is acquired in a year whose test passes only on that year's own
\* values: on the balance carried into the year the equity would fall short.
C21_Witness ==
  /\ tips.tip5_purchasePrice > 0
  /\ \E i \in 2..Len(years) :
       /\ AcquiredIn(i)
       /\ ~EquityCondition(i - 1)
       /\ Max(0, Mul(years[i].homeValue, 800) - BalanceBefore(i))
            < Mul(tips.tip5_purchasePrice, 300)

(***************************************************************************)
(* C22.  Asset value and loan after acquisition.  From the acquisition     *)
(* snapshot a on, ipLoanBalance = tip5_purchasePrice x                     *)
(* (1 + tip5_purchaseCostsRate) in every snapshot; ipValue_a =             *)
(* tip5_purchasePrice x (1 + ipGrowthRate) and ipValue_(k+1) =             *)
(* ipValue_k x (1 + ipGrowthRate) for every k >= a; the purchase changes   *)
(* neither the home loan balance, which is what the year's mortgage stage  *)
(* left, nor the offset balance.                                           *)
(***************************************************************************)
\* The balance the mortgage stage of the year of snapshot i produces.
MortgageStageBalance(i) ==
  LET L == BalanceBefore(i)
      R == years[i].homeLoanRepayments
      interest == years[i].homeLoanInterest
  IN  IF R - interest < 0 THEN L + interest ELSE Max(0, L - (R - interest))

C22_AssetAfterAcquisition ==
  \A i \in 1..Len(years) :
    AcquiredBy(i) =>
      /\ years[i].ipLoanBalance
           = Mul(tips.tip5_purchasePrice, RateOne + tips.tip5_purchaseCostsRate)
      /\ years[i].ipValue
           = Mul(IF AcquiredIn(i) THEN tips.tip5_purchasePrice
                                  ELSE years[i - 1].ipValue,
                 RateOne + assumptions.ipGrowthRate)
      /\ AcquiredIn(i) =>
           /\ years[i].homeLoanBalance = MortgageStageBalance(i)
           /\ years[i].offsetBalance = base.offsetBalance

\* Two years after the purchase the loan still stands at price plus costs and
\* the value has grown three times.
C22_Witness ==
  \E i \in 1..(Len(years) - 2) :
    /\ AcquiredIn(i)
    /\ tips.tip5_purchaseCostsRate > 0
    /\ years[i + 2].ipLoanBalance = years[i].ipLoanBalance
    /\ years[i].ipValue > tips.tip5_purchasePrice
    /\ years[i + 1].ipValue > years[i].ipValue
    /\ years[i + 2].ipValue > years[i + 1].ipValue
    /\ years[i].homeLoanBalance > 0
    /\ years[i].offsetBalance > 0

ClaimedContribution(i) ==
  IF /\ AcquiredBy(i)
     /\ tips.tip6_recyclePerYear > 0
     /\ years[i].homeLoanBalance > 0
  THEN Min(tips.tip6_recyclePerYear, years[i].homeLoanBalance)
  ELSE 0

RECURSIVE ClaimedContributions(_)
ClaimedContributions(i) ==
  IF i = 0 THEN 0 ELSE ClaimedContributions(i - 1) + ClaimedContribution(i)

\* The portfolio of the year of snapshot i once the contribution is in.
PortfolioAfterContribution(i) ==
  (IF i = 1 THEN 0 ELSE years[i - 1].investPortfolioValue) + Contribution(i)

\* The year-end portfolio that the balance P grows to.
GrownPortfolio(P) ==
  IF P > 0
  THEN P + Mul(P, tips.tip6_dividendYield)
         + Mul(P, tips.tip6_investReturn - tips.tip6_dividendYield)
  ELSE P

C25_PortfolioIncomeAndGrowth ==
  \A i \in 1..Len(years) :
    LET P == PortfolioAfterContribution(i)
    IN  IF P > 0
        THEN /\ years[i].investIncome = Mul(P, tips.tip6_dividendYield)
             /\ years[i].investPortfolioValue
                  = P + years[i].investIncome
                      + Mul(P, tips.tip6_investReturn - tips.tip6_dividendYield)
             /\ Abs(years[i].investPortfolioValue
                      - Mul(P, RateOne + tips.tip6_investReturn)) <= 1
        ELSE /\ years[i].investIncome = 0
             /\ years[i].investPortfolioValue = P

\* Two years running of a portfolio paying a dividend below its return: the
\* second year's dividend is earned on the first year's retained growth.
C25_Witness ==
  /\ tips.tip6_dividendYield > 0
  /\ tips.tip6_investReturn > tips.tip6_dividendYield
  /\ \E i \in 1..(Len(years) - 1) :
       /\ PortfolioAfterContribution(i) > 0
       /\ years[i].investIncome > 0
       /\ years[i].investPortfolioValue
            > PortfolioAfterContribution(i) + years[i].investIncome
       /\ PortfolioAfterContribution(i + 1) > years[i].investPortfolioValue
       /\ years[i + 1].investIncome > years[i].investIncome

(***************************************************************************)
(* C26.  Tax effect.  In every snapshot taxEffectNet =                     *)
(* -(ipRent - ipExpenses - ipInterest) x marginalTaxRate                   *)
(* + -(investIncome - recycledInterest) x marginalTaxRate, one signed rule *)
(* for losses and gains, where recycledInterest = investmentLoanBalance x  *)
(* homeLoanRate if investmentLoanBalance > 0 and tip6_investReturn > 0,    *)
(* and 0 otherwise.                                                        *)
(***************************************************************************)
RecycledInterest(i) ==
  IF years[i].investmentLoanBalance > 0 /\ tips.tip6_investReturn > 0
  THEN Mul(years[i].investmentLoanBalance, base.homeLoanRate)
  ELSE 0

C26_TaxEffect ==
  \A i \in 1..Len(years) :
    years[i].taxEffectNet
      = Mul(-(years[i].ipRent - years[i].ipExpenses - years[i].ipInterest),
            base.marginalTaxRate)
        + Mul(-(years[i].investIncome - RecycledInterest(i)),
              base.marginalTaxRate)

\* With a recycled loan at a positive home loan rate and no investment return
\* configured, the year's tax effect is the benefit of the asset's loss alone.
C26_Witness ==
  \E i \in 1..Len(years) :
    /\ years[i].investmentLoanBalance > 0
    /\ base.homeLoanRate > 0
    /\ base.marginalTaxRate > 0
    /\ tips.tip6_investReturn = 0
    /\ years[i].ipRent - years[i].ipExpenses - years[i].ipInterest < 0
    /\ years[i].taxEffectNet > 0
    /\ years[i].taxEffectNet
         = Mul(-(years[i].ipRent - years[i].ipExpenses - years[i].ipInterest),
               base.marginalTaxRate)

(***************************************************************************)
(* C27.  Cash-flow aggregation.  In every snapshot totalIncome =           *)
(* netIncome + ipRent + investIncome + max(0, taxEffectNet), totalExpenses *)
(* = livingExpenses + homeLoanRepayments + ipExpenses + ipInterest +       *)
(* max(0, -taxEffectNet) and surplusCashflow = totalIncome - totalExpenses;*)
(* hence surplusCashflow = netIncome + ipRent + investIncome +             *)
(* taxEffectNet - livingExpenses - homeLoanRepayments - ipExpenses -       *)
(* ipInterest, the interest on the recycled loan entering only through     *)
(* taxEffectNet.                                                           *)
(***************************************************************************)
C27_CashFlowAggregation ==
  \A i \in 1..Len(years) :
    LET y == years[i]
    IN  /\ y.totalIncome
             = y.netIncome + y.ipRent + y.investIncome + Max(0, y.taxEffectNet)
        /\ y.totalExpenses
             = y.livingExpenses + y.homeLoanRepayments + y.ipExpenses
                 + y.ipInterest + Max(0, -y.taxEffectNet)
        /\ y.surplusCashflow = y.totalIncome - y.totalExpenses
        /\ y.surplusCashflow
             = y.netIncome + y.ipRent + y.investIncome + y.taxEffectNet
                 - y.livingExpenses - y.homeLoanRepayments - y.ipExpenses
                 - y.ipInterest

\* One run has a year whose tax effect is a benefit, counted as income, and a
\* year whose tax effect is extra tax, counted as an expense, with interest
\* running on a recycled loan.
C27_Witness ==
  /\ base.homeLoanRate > 0
  /\ tips.tip6_investReturn > 0
  /\ \E i, j \in 1..Len(years) :
       /\ years[i].taxEffectNet > 0
       /\ years[i].totalIncome > years[i].netIncome + years[i].ipRent
                                   + years[i].investIncome
       /\ years[i].investmentLoanBalance > 0
       /\ years[j].taxEffectNet < 0
       /\ years[j].totalExpenses
            = years[j].livingExpenses + years[j].homeLoanRepayments
                + years[j].ipExpenses + years[j].ipInterest
                - years[j].taxEffectNet

(***************************************************************************)
(* C28.  Balance-sheet aggregation.  In every snapshot totalAssets =       *)
(* homeValue + ipValue + investPortfolioValue + offsetBalance,             *)
(* totalLiabilities = homeLoanBalance + ipLoanBalance +                    *)
(* investmentLoanBalance and netWorth = totalAssets - totalLiabilities, on *)
(* the snapshot's own end-of-year values.                                  *)
(***************************************************************************)
C28_BalanceSheet ==
  \A i \in 1..Len(years) :
    LET y == years[i]
    IN  /\ y.totalAssets
             = y.homeValue + y.ipValue + y.investPortfolioValue + y.offsetBalance
        /\ y.totalLiabilities
             = y.homeLoanBalance + y.ipLoanBalance + y.investmentLoanBalance
        /\ y.netWorth = y.totalAssets - y.totalLiabilities

\* A snapshot with every asset and every liability on the books.
C28_Witness ==
  \E i \in 2..Len(years) :
    /\ years[i].homeValue > years[i - 1].homeValue
    /\ years[i].ipValue > 0
    /\ years[i].investPortfolioValue > 0
    /\ years[i].offsetBalance > 0
    /\ years[i].homeLoanBalance > 0
    /\ years[i].ipLoanBalance > 0
    /\ years[i].investmentLoanBalance > 0
    /\ years[i].netWorth > 0
    /\ years[i].netWorth < years[i].totalAssets

(***************************************************************************)
(* C29.  Debt recycling leaves the home loan untouched.  The recycling     *)
(* stage changes only investmentLoanBalance and investPortfolioValue: the  *)
(* snapshot's homeLoanBalance is the balance the year's mortgage stage     *)
(* produced, whatever the contribution, so a positive contribution raises  *)
(* totalLiabilities by exactly the contribution.                           *)
(***************************************************************************)
C29_HomeLoanUntouched ==
  /\ \A i \in 1..Len(years) :
       /\ years[i].homeLoanBalance = MortgageStageBalance(i)
       /\ years[i].totalLiabilities
            = MortgageStageBalance(i) + years[i].ipLoanBalance
                + (IF i = 1 THEN 0 ELSE years[i - 1].investmentLoanBalance)
                + Contribution(i)
  /\ Len(years) > 0 => homeLoanBalance = Last.homeLoanBalance

\* A year recycles the full target while the loan, still above the target,
\* stands exactly where the repayment left it, and liabilities have risen.
C29_Witness ==
  \E i \in 2..Len(years) :
    /\ Contribution(i) = tips.tip6_recyclePerYear
    /\ Contribution(i) > 0
    /\ AcquiredBy(i - 1)
    /\ years[i].homeLoanBalance = MortgageStageBalance(i)
    /\ years[i].homeLoanBalance > Contribution(i)
    /\ years[i].homeLoanBalance < BalanceBefore(i)
    /\ years[i].totalLiabilities > years[i - 1].totalLiabilities

(***************************************************************************)
(* C30.  A loan cleared by repayments alone is not reported as debt-free.  *)
(* couldClearHomeLoan is false in every snapshot whose homeLoanBalance is  *)
(* 0; in a run where no asset is acquired and no portfolio exists          *)
(* totalAvailableIfSold is 0 and couldClearHomeLoan is false in every      *)
(* snapshot, so debtFreeYearIndex is absent even when the final snapshot's *)
(* homeLoanBalance is 0.                                                   *)
(***************************************************************************)
NothingToSell ==
  \A i \in 1..Len(years) :
    years[i].ipValue = 0 /\ years[i].investPortfolioValue = 0

C30_RepaidIsNotDebtFree ==
  /\ \A i \in 1..Len(years) :
       years[i].homeLoanBalance = 0 => ~years[i].couldClearHomeLoan
  /\ NothingToSell =>
       /\ \A i \in 1..Len(years) :
            /\ years[i].totalAvailableIfSold = 0
            /\ ~years[i].couldClearHomeLoan
       /\ debtFreeYearIndex = {}

\* A returned run with nothing to sell repaid its loan to 0 over several
\* years and reports no debt-free year.
C30_Witness ==
  /\ pc = "done"
  /\ tips.tip5_purchasePrice = 0
  /\ NothingToSell
  /\ Len(years) >= 2
  /\ years[1].homeLoanBalance > 0
  /\ Last.homeLoanBalance = 0
  /\ debtFreeYearIndex = {}

====
